---------------------------- MODULE Spec2Model ----------------------------
(***************************************************************************)
(* A model of docs/analyze_vendors.py: the vendor-name normaliser          *)
(* (normalize_vendor_base, an ordered pipeline of re.sub rewrites), the    *)
(* grouping of distinct descriptions by normalised key                     *)
(* (extract_vendor_patterns, find_groups) and the run of                   *)
(* analyze_vendor_data (load, group, print, count, print).                 *)
(*                                                                         *)
(* A Python str is a sequence of one-character strings.                    *)
(***************************************************************************)
EXTENDS Integers, Sequences, FiniteSets, TLC

VARIABLES
  vendor,           \* normalize_vendor_base: its argument
  v,                \* normalize_vendor_base: the local v
  line,             \* normalize_vendor_base: the statement about to run
  fired,            \* history: the re.sub statements that changed v
  pc,               \* analyze_vendor_data: the statement about to run
  file,             \* the CSV file at filepath
  transactions,     \* analyze_vendor_data: transactions
  vendors,          \* analyze_vendor_data: vendors
  todo,             \* loop position: the items the running for-loop has left
  patterns,         \* the dict patterns, as its items in insertion order
  groups,           \* analyze_vendor_data: groups
  merchant_counts,  \* the dict merchant_counts, as its items in insertion order
  top_merchants,    \* analyze_vendor_data: top_merchants
  out,              \* what print has written to stdout, in order
  raised            \* the exception that ended the run, or "none"

normVars == <<vendor, v, line, fired>>
runVars == <<pc, file, transactions, vendors, todo, patterns, groups,
             merchant_counts, top_merchants, out, raised>>
vars == <<vendor, v, line, fired, pc, file, transactions, vendors, todo,
          patterns, groups, merchant_counts, top_merchants, out, raised>>

---------------------------------------------------------------------------
(* Characters and the str methods the code uses.                           *)

Digits == {"0", "1", "2", "3", "4", "5", "6", "7", "8", "9"}

UpperCase ==
  <<"A", "B", "C", "D", "E", "F", "G", "H", "I", "J", "K", "L", "M",
    "N", "O", "P", "Q", "R", "S", "T", "U", "V", "W", "X", "Y", "Z">>

LowerCase ==
  <<"a", "b", "c", "d", "e", "f", "g", "h", "i", "j", "k", "l", "m",
    "n", "o", "p", "q", "r", "s", "t", "u", "v", "w", "x", "y", "z">>

Letters == {UpperCase[n] : n \in DOMAIN UpperCase}

\* [A-Z0-9]
AlphaNum == Letters \cup Digits

\* \s, and the characters str.strip() removes
WhiteSpace == {" ", "\t", "\n", "\r", "\f"}

\* The printable ASCII characters in code-point order, 32 (space) to 95.
Printable ==
  <<" ", "!", "\"", "#", "$", "%", "&", "'", "(", ")", "*", "+", ",", "-",
    ".", "/", "0", "1", "2", "3", "4", "5", "6", "7", "8", "9", ":", ";",
    "<", "=", ">", "?", "@", "A", "B", "C", "D", "E", "F", "G", "H", "I",
    "J", "K", "L", "M", "N", "O", "P", "Q", "R", "S", "T", "U", "V", "W",
    "X", "Y", "Z", "[", "\\", "]", "^", "_">>

\* The printable ASCII characters from 97 (a) on.
PrintableLower == LowerCase \o <<"{", "|", "}", "~">>

\* ord(c)
ord(c) ==
  CASE c = "\t" -> 9
    [] c = "\n" -> 10
    [] c = "\f" -> 12
    [] c = "\r" -> 13
    [] \E n \in DOMAIN Printable : Printable[n] = c ->
         31 + (CHOOSE n \in DOMAIN Printable : Printable[n] = c)
    [] OTHER ->
         96 + (CHOOSE n \in DOMAIN PrintableLower : PrintableLower[n] = c)

\* The upper-case letter of each lower-case letter.
UpperOf == [c \in {LowerCase[n] : n \in DOMAIN LowerCase} |->
              UpperCase[CHOOSE n \in DOMAIN LowerCase : LowerCase[n] = c]]

\* str.upper(), one character
upper_char(c) == IF c \in DOMAIN UpperOf THEN UpperOf[c] ELSE c

\* str.upper()
upper(s) == [n \in 1..Len(s) |-> upper_char(s[n])]

\* str.strip(): drop the leading and the trailing whitespace
strip(s) ==
  IF \A n \in 1..Len(s) : s[n] \in WhiteSpace
    THEN <<>>
    ELSE LET first == CHOOSE n \in 1..Len(s) :
                        /\ s[n] \notin WhiteSpace
                        /\ \A m \in 1..(n - 1) : s[m] \in WhiteSpace
             last == CHOOSE n \in 1..Len(s) :
                        /\ s[n] \notin WhiteSpace
                        /\ \A m \in (n + 1)..Len(s) : s[m] \in WhiteSpace
         IN SubSeq(s, first, last)

\* a < b for str: lexicographic on code points, a proper prefix first
str_lt(a, b) ==
  \E n \in 1..(Len(b)) :
    /\ \A m \in 1..(n - 1) : m <= Len(a) /\ a[m] = b[m]
    /\ \/ n = Len(a) + 1
       \/ n <= Len(a) /\ ord(a[n]) < ord(b[n])

---------------------------------------------------------------------------
(* The regular-expression machinery: positions are 1-based, a match is     *)
(* named by the position just after it, and 0 stands for "no match here".  *)

\* The literal lit stands in s at position i.
At(s, i, lit) ==
  /\ i >= 1
  /\ i + Len(lit) - 1 <= Len(s)
  /\ \A n \in 1..Len(lit) : s[i + n - 1] = lit[n]

\* Every character of s in i..(j - 1) is in Class.
All(s, i, j, Class) == \A n \in i..(j - 1) : s[n] \in Class

\* Where the run of Class characters that starts at i stops (greedy X*).
RECURSIVE RunEnd(_, _, _)
RunEnd(s, i, Class) ==
  IF i > Len(s) \/ s[i] \notin Class THEN i ELSE RunEnd(s, i + 1, Class)

\* $ without re.MULTILINE: at the end, or just before a final newline.
AtEnd(s, j) == j = Len(s) + 1 \/ (j = Len(s) /\ s[j] = "\n")

\* The one position where $ can hold after a match whose last character
\* is no newline: the end of s, or just before its final newline.
DollarEnd(s) ==
  IF Len(s) > 0 /\ s[Len(s)] = "\n" THEN Len(s) ELSE Len(s) + 1

\* The first newline at or after position from, or the position after s:
\* where the dot of .* stops.
RECURSIVE FirstNewline(_, _)
FirstNewline(s, from) ==
  IF from > Len(s) \/ s[from] = "\n" THEN from ELSE FirstNewline(s, from + 1)

\* Where .*$ ends when it starts at position from: the dot takes everything
\* up to the first newline, and $ must hold there.
DotStarDollarEnd(s, from) ==
  LET q == FirstNewline(s, from)
  IN IF AtEnd(s, q) THEN q ELSE 0

RECURSIVE re_sub_from(_, _, _, _)
re_sub_from(ends, repl, s, pos) ==
  IF pos > Len(s) THEN <<>>
  ELSE IF ends[pos] # 0
    THEN repl \o re_sub_from(ends, repl, s, ends[pos])
    ELSE <<s[pos]>> \o re_sub_from(ends, repl, s, pos + 1)

\* re.sub(pattern, repl, s) for a pattern that matches no empty string:
\* scan left to right, replace the leftmost match, go on after it.
\* ends[i] is where the pattern's match starting at i ends.
re_sub(ends, repl, s) ==
  IF \A i \in 1..Len(s) : ends[i] = 0 THEN s ELSE re_sub_from(ends, repl, s, 1)

---------------------------------------------------------------------------
(* normalize_vendor_base: one definition per re.sub statement.             *)

\* \s*#?\d{4,8}$
StoreNumberEnd(s, i) ==
  LET e == DollarEnd(s)
  IN IF e - 4 >= i /\ s[e - 1] \in Digits /\ \E d \in 4..8 :
          LET r == e - d
          IN /\ r >= i
             /\ All(s, r, e, Digits)
             /\ \/ All(s, i, r, WhiteSpace)
                \/ r - 1 >= i /\ s[r - 1] = "#" /\ All(s, i, r - 1, WhiteSpace)
       THEN e
       ELSE 0

\* line 37: v = re.sub(r'\s*#?\d{4,8}$', '', v)
sub_store_number(s) ==
  re_sub([i \in 1..Len(s) |-> StoreNumberEnd(s, i)], <<>>, s)

\* \s+#\d+
HashTokenEnd(s, i) ==
  IF s[i] \notin WhiteSpace THEN 0
  ELSE LET r == RunEnd(s, i, WhiteSpace)
       IN IF r + 1 <= Len(s) /\ s[r] = "#" /\ s[r + 1] \in Digits
            THEN RunEnd(s, r + 1, Digits)
            ELSE 0

\* A slip: the #token rule written with the store-number rule's digit count,
\* \s+#\d{4,}
sub_hash_token_long(s) ==
  re_sub([i \in 1..Len(s) |->
            IF HashTokenEnd(s, i) # 0
               /\ HashTokenEnd(s, i) - RunEnd(s, i, WhiteSpace) - 1 >= 4
              THEN HashTokenEnd(s, i)
              ELSE 0],
         <<>>, s)

\* line 38: v = re.sub(r'\s+#\d+', '', v)
sub_hash_token(s) ==
  re_sub([i \in 1..Len(s) |-> HashTokenEnd(s, i)], <<>>, s)

\* \s+[A-Z]\d{5}$
LocationCodeEnd(s, i) ==
  LET e == DollarEnd(s)
  IN IF /\ e - 7 >= i
        /\ All(s, i, e - 6, WhiteSpace)
        /\ s[e - 6] \in Letters
        /\ All(s, e - 5, e, Digits)
       THEN e
       ELSE 0

\* line 41: v = re.sub(r'\s+[A-Z]\d{5}$', '', v)
sub_location_code(s) ==
  re_sub([i \in 1..Len(s) |-> LocationCodeEnd(s, i)], <<>>, s)

\* ^lit
PrefixEnd(s, i, lit) == IF i = 1 /\ At(s, 1, lit) THEN 1 + Len(lit) ELSE 0

\* re.sub('^' + lit, '', s)
sub_prefix(lit, s) ==
  re_sub([i \in 1..Len(s) |-> PrefixEnd(s, i, lit)], <<>>, s)

SQ == <<"S", "Q", " ", "*">>
TST == <<"T", "S", "T", "*">>
SP == <<"S", "P", " ">>
FSP == <<"F", "S", "P", "*">>
PAR == <<"P", "A", "R", "*">>

\* line 44: v = re.sub(r'^SQ \*', '', v)
sub_sq(s) == sub_prefix(SQ, s)

AMAZON == <<"A", "M", "A", "Z", "O", "N">>
AMAZON_MKTP == AMAZON \o <<" ", "M", "K", "T", "P">>

\* AMAZON MKTPL?\*[A-Z0-9]+
AmazonEnd(s, i) ==
  IF ~At(s, i, AMAZON_MKTP) THEN 0
  ELSE LET j == i + Len(AMAZON_MKTP)
           k == IF j <= Len(s) /\ s[j] = "L" THEN j + 1 ELSE j
       IN IF k + 1 <= Len(s) /\ s[k] = "*" /\ s[k + 1] \in AlphaNum
            THEN RunEnd(s, k + 1, AlphaNum)
            ELSE 0

\* A slip: the marketplace pattern rewritten to the brand spelled out,
\* 'AMAZON MARKETPLACE'
sub_amazon_long(s) ==
  re_sub([i \in 1..Len(s) |-> AmazonEnd(s, i)],
         AMAZON \o <<" ", "M", "A", "R", "K", "E", "T", "P", "L", "A", "C", "E">>, s)

\* line 47: v = re.sub(r'AMAZON MKTPL?\*[A-Z0-9]+', 'AMAZON', v)
sub_amazon(s) ==
  re_sub([i \in 1..Len(s) |-> AmazonEnd(s, i)], AMAZON, s)

\* A slip: the TST* pattern without its ^ anchor
sub_tst_anywhere(s) ==
  re_sub([i \in 1..Len(s) |-> IF At(s, i, TST) THEN i + Len(TST) ELSE 0], <<>>, s)

\* line 50: v = re.sub(r'^TST\*', '', v)
sub_tst(s) == sub_prefix(TST, s)

\* line 53: v = re.sub(r'^SP ', '', v)
sub_sp(s) == sub_prefix(SP, s)

\* line 56: v = re.sub(r'^FSP\*', '', v)
sub_fsp(s) == sub_prefix(FSP, s)

\* line 59: v = re.sub(r'^PAR\*', '', v)
sub_par(s) == sub_prefix(PAR, s)

\* \s+lit.*$
PlaceEnd(s, i, lit) ==
  IF s[i] \notin WhiteSpace THEN 0
  ELSE LET r == RunEnd(s, i, WhiteSpace)
       IN IF At(s, r, lit) THEN DotStarDollarEnd(s, r + Len(lit)) ELSE 0

\* re.sub(r'\s+' + lit + '.*$', '', s)
sub_place(lit, s) ==
  re_sub([i \in 1..Len(s) |-> PlaceEnd(s, i, lit)], <<>>, s)

OVERLAND_PARK ==
  <<"O", "V", "E", "R", "L", "A", "N", "D", " ", "P", "A", "R", "K">>
LEAWOOD == <<"L", "E", "A", "W", "O", "O", "D">>
PRAIRIE_FIRE ==
  <<"P", "R", "A", "I", "R", "I", "E", " ", "F", "I", "R", "E">>

\* line 62: v = re.sub(r'\s+OVERLAND PARK.*$', '', v)
sub_overland_park(s) == sub_place(OVERLAND_PARK, s)

\* line 63: v = re.sub(r'\s+LEAWOOD.*$', '', v)
sub_leawood(s) == sub_place(LEAWOOD, s)

\* line 64: v = re.sub(r'\s+PRAIRIE FIRE.*$', '', v)
sub_prairie_fire(s) == sub_place(PRAIRIE_FIRE, s)

\* \s+lit$
SuffixEnd(s, i, lit) ==
  IF s[i] \notin WhiteSpace THEN 0
  ELSE LET r == RunEnd(s, i, WhiteSpace)
       IN IF At(s, r, lit) /\ AtEnd(s, r + Len(lit))
            THEN r + Len(lit)
            ELSE 0

\* re.sub(r'\s+' + lit + '$', '', s)
sub_suffix(lit, s) ==
  re_sub([i \in 1..Len(s) |-> SuffixEnd(s, i, lit)], <<>>, s)

POS == <<"P", "O", "S">>
OUTSIDE == <<"O", "U", "T", "S", "I", "D", "E">>

\* line 67: v = re.sub(r'\s+POS$', '', v)
sub_pos(s) == sub_suffix(POS, s)

\* line 70: v = re.sub(r'\s+OUTSIDE$', '', v)
sub_outside(s) == sub_suffix(OUTSIDE, s)

\* normalize_vendor_base(vendor), lines 33-75, for a str argument
normalize_vendor_base(raw) ==
  LET v33 == upper(raw)
      v37 == sub_store_number(v33)
      v38 == sub_hash_token(v37)
      v41 == sub_location_code(v38)
      v44 == sub_sq(v41)
      v47 == sub_amazon(v44)
      v50 == sub_tst(v47)
      v53 == sub_sp(v50)
      v56 == sub_fsp(v53)
      v59 == sub_par(v56)
      v62 == sub_overland_park(v59)
      v63 == sub_leawood(v62)
      v64 == sub_prairie_fire(v63)
      v67 == sub_pos(v64)
      v70 == sub_outside(v67)
  IN strip(v70)

---------------------------------------------------------------------------
(* The normaliser run on its own: normalize_vendor_base called on one      *)
(* argument, one action per statement of its body.                         *)

\* The most fragments an argument is put together from.
MaxTokens == 3

\* The fragments the arguments are put together from: each rule's own
\* text, in upper or lower case, and the text around it.
Tokens ==
  { <<"S", "Q", " ", "*">>,
    <<"t", "s", "t", "*">>,
    <<"S", "P", " ">>,
    <<"F", "S", "P", "*">>,
    <<"P", "A", "R", "*">>,
    <<"A", "M", "A", "Z", "O", "N", " ", "M", "K", "T", "P">>,
    <<"L">>,
    <<"*", "A", "1">>,
    <<" ", "#", "4", "2">>,
    <<" ", "1", "2", "3", "4">>,
    <<" ", "T", "1", "2", "3", "4", "5">>,
    <<" ", "O", "V", "E", "R", "L", "A", "N", "D", " ", "P", "A", "R", "K">>,
    <<" ", "L", "E", "A", "W", "O", "O", "D">>,
    <<" ", "P", "R", "A", "I", "R", "I", "E", " ", "F", "I", "R", "E">>,
    <<" ", "p", "o", "s">>,
    <<" ", "O", "U", "T", "S", "I", "D", "E">>,
    <<" ">> }

RECURSIVE Concatenations(_)
Concatenations(n) ==
  IF n = 0 THEN {<<>>}
  ELSE LET shorter == Concatenations(n - 1)
       IN shorter \cup {s \o t : s \in shorter, t \in Tokens}

\* The arguments normalize_vendor_base is called on.
Arguments == Concatenations(MaxTokens)

\* analyze_vendor_data is not running.
RunIdle ==
  /\ pc = "idle"
  /\ file = <<>>
  /\ transactions = <<>>
  /\ vendors = <<>>
  /\ todo = <<>>
  /\ patterns = <<>>
  /\ groups = <<>>
  /\ merchant_counts = <<>>
  /\ top_merchants = <<>>
  /\ out = <<>>
  /\ raised = "none"

\* normalize_vendor_base is not running on its own.
NormIdle ==
  /\ vendor = <<>>
  /\ v = <<>>
  /\ line = 0
  /\ fired = {}

\* The call normalize_vendor_base(vendor): v is unbound until line 33.
InitNorm ==
  /\ vendor \in Arguments
  /\ v = <<>>
  /\ line = 33
  /\ fired = {}
  /\ RunIdle

\* The statement at line at assigns result to v; control goes to line to.
Assign(at, to, result) ==
  /\ line = at
  /\ v' = result
  /\ fired' = IF v' # v THEN fired \cup {at} ELSE fired
  /\ line' = to
  /\ UNCHANGED vendor
  /\ UNCHANGED runVars

\* line 33: v = vendor.upper()
Upper ==
  /\ line = 33
  /\ v' = upper(vendor)
  /\ line' = 37
  /\ UNCHANGED <<vendor, fired>>
  /\ UNCHANGED runVars

SubStoreNumber == Assign(37, 38, sub_store_number(v))
SubHashToken == Assign(38, 41, sub_hash_token(v))
SubLocationCode == Assign(41, 44, sub_location_code(v))
SubSq == Assign(44, 47, sub_sq(v))
SubAmazon == Assign(47, 50, sub_amazon(v))
SubTst == Assign(50, 53, sub_tst(v))
SubSp == Assign(53, 56, sub_sp(v))
SubFsp == Assign(56, 59, sub_fsp(v))
SubPar == Assign(59, 62, sub_par(v))
SubOverlandPark == Assign(62, 63, sub_overland_park(v))
SubLeawood == Assign(63, 64, sub_leawood(v))
SubPrairieFire == Assign(64, 67, sub_prairie_fire(v))
SubPos == Assign(67, 70, sub_pos(v))
SubOutside == Assign(70, 73, sub_outside(v))

\* line 73: v = v.strip(); line 75 returns v
Strip ==
  /\ line = 73
  /\ v' = strip(v)
  /\ line' = 75
  /\ UNCHANGED <<vendor, fired>>
  /\ UNCHANGED runVars

NextNorm ==
  \/ Upper
  \/ SubStoreNumber
  \/ SubHashToken
  \/ SubLocationCode
  \/ SubSq
  \/ SubAmazon
  \/ SubTst
  \/ SubSp
  \/ SubFsp
  \/ SubPar
  \/ SubOverlandPark
  \/ SubLeawood
  \/ SubPrairieFire
  \/ SubPos
  \/ SubOutside
  \/ Strip

SpecNorm == InitNorm /\ [][NextNorm]_vars

\* normalize_vendor_base has returned v.
Returned == line = 75

\* The statements that strip a payment-aggregator prefix.
PrefixLines == {44, 50, 53, 56, 59}

---------------------------------------------------------------------------
(* Lists, dicts and sorted().  A dict is the sequence of its items         *)
(* <<key, value>> in insertion order, which is the order Python iterates.  *)

\* None, the value csv.DictReader gives a field the row is too short for:
\* a value that is no str (no str has an element of several characters).
None == <<"None">>

\* s[:n]
Take(s, n) == SubSeq(s, 1, IF n < Len(s) THEN n ELSE Len(s))

\* The position of key k among the items of dict d, or 0.
ItemIndex(d, k) ==
  IF \E n \in DOMAIN d : d[n][1] = k
    THEN CHOOSE n \in DOMAIN d : d[n][1] = k
    ELSE 0

\* sorted(list) for a list of str: ascending, stable.
sorted(list) ==
  LET rank(i) ==
        Cardinality({j \in DOMAIN list : str_lt(list[j], list[i])})
        + Cardinality({j \in 1..(i - 1) : list[j] = list[i]}) + 1
  IN [p \in DOMAIN list |-> list[CHOOSE i \in DOMAIN list : rank(i) = p]]

\* A slip: sorted(items, key=...)[::-1], which turns equal items around
sorted_then_reversed(items, key) ==
  LET rank(i) ==
        Cardinality({j \in DOMAIN items : key[j] > key[i]})
        + Cardinality({j \in (i + 1)..Len(items) : key[j] = key[i]}) + 1
  IN [p \in DOMAIN items |-> items[CHOOSE i \in DOMAIN items : rank(i) = p]]

\* sorted(items, key=..., reverse=True), key[i] being the key of items[i]:
\* descending, and stable (reverse=True keeps equal items in their order).
sorted_reverse(items, key) ==
  LET rank(i) ==
        Cardinality({j \in DOMAIN items : key[j] > key[i]})
        + Cardinality({j \in 1..(i - 1) : key[j] = key[i]}) + 1
  IN [p \in DOMAIN items |-> items[CHOOSE i \in DOMAIN items : rank(i) = p]]

\* The items of seq that satisfy keep, in order; keep[i] is for seq[i].
RECURSIVE Filter(_, _, _)
Filter(seq, keep, i) ==
  IF i > Len(seq) THEN <<>>
  ELSE (IF keep[i] THEN <<seq[i]>> ELSE <<>>) \o Filter(seq, keep, i + 1)

\* Every ordering of the finite set S as a list.
Orderings(S) ==
  {f \in [1..Cardinality(S) -> S] : \A a, b \in DOMAIN f : a # b => f[a] # f[b]}

---------------------------------------------------------------------------
(* load_transactions, extract_vendor_patterns, find_groups.                *)

\* csv.DictReader's dict of one row: a field the row is too short for is None.
DictRow(fieldnames, row) ==
  [f \in {fieldnames[n] : n \in DOMAIN fieldnames} |->
     LET n == CHOOSE m \in DOMAIN fieldnames : fieldnames[m] = f
     IN IF n <= Len(row) THEN row[n] ELSE None]

\* lines 13-18: the list of the rows' dicts
load_transactions(f) == [n \in DOMAIN f.rows |-> DictRow(f.fieldnames, f.rows[n])]

\* t.get('Description', default)
get_description(t, default) ==
  IF "Description" \in DOMAIN t THEN t["Description"] ELSE default

\* Python's truth value of t.get('Description'): neither None nor ''.
truthy(value) == value # None /\ value # <<>>

\* A slip: patterns[base] = [vendor], the bucket overwritten
append_variant_overwrite(d, base, raw) ==
  LET n == ItemIndex(d, base)
  IN IF n = 0 THEN Append(d, <<base, <<raw>>>>)
     ELSE [d EXCEPT ![n] = <<base, <<raw>>>>]

\* line 27: patterns[base].append(vendor) on a defaultdict(list)
append_variant(d, base, raw) ==
  LET n == ItemIndex(d, base)
  IN IF n = 0 THEN Append(d, <<base, <<raw>>>>)
     ELSE [d EXCEPT ![n] = <<base, Append(d[n][2], raw)>>]

\* lines 79-84: find_groups(patterns)
find_groups(d) ==
  LET kept == Filter(d, [n \in DOMAIN d |-> Len(d[n][2]) > 1], 1)
      listed == [n \in DOMAIN kept |-> <<kept[n][1], sorted(kept[n][2])>>]
  IN sorted_reverse(listed, [n \in DOMAIN listed |-> Len(listed[n][2])])

\* line 120: merchant_counts[base] += 1 on a defaultdict(int)
count_one(d, base) ==
  LET n == ItemIndex(d, base)
  IN IF n = 0 THEN Append(d, <<base, 1>>)
     ELSE [d EXCEPT ![n] = <<base, d[n][2] + 1>>]

\* line 103: groups[:30]
ShownGroups == 30
\* line 105: variants[:10]
ShownVariants == 10
\* line 122: [:50]
ShownMerchants == 50

\* line 122: sorted(merchant_counts.items(), key=count, reverse=True)[:50]
top_of(d) ==
  Take(sorted_reverse(d, [n \in DOMAIN d |-> d[n][2]]), ShownMerchants)

\* lines 103-108: what the loop prints for the groups it shows
groups_report(g) ==
  [i \in DOMAIN Take(g, ShownGroups) |->
     <<i, g[i][1], Len(g[i][2]), Take(g[i][2], ShownVariants),
       IF Len(g[i][2]) > ShownVariants THEN Len(g[i][2]) - ShownVariants ELSE 0>>]

\* lines 125-127: what the loop prints for the top merchants
merchants_report(top, d) ==
  [i \in DOMAIN top |->
     LET n == ItemIndex(d, top[i][1])
         variants == IF n = 0 THEN <<top[i][1]>> ELSE d[n][2]
     IN <<i, top[i][1], top[i][2], Len(variants)>>]

\* print(...) at a line of analyze_vendor_data
Printed(at, args) == [at |-> at, args |-> args]

---------------------------------------------------------------------------
(* The run of analyze_vendor_data(filepath).                               *)

\* The most rows a file has.
MaxRows == 3

JOES_42 == <<"T", "S", "T", "*", " ", "J", "O", "E", "S", " ", "D", "I", "N", "E", "R", " ", "#", "4", "2">>
JOES_77 == <<"T", "S", "T", "*", "J", "O", "E", "S", " ", "D", "I", "N", "E", "R", " ", "#", "7", "7">>
SBUX_POS == <<"S", "B", "U", "X", " ", "P", "O", "S">>
SBUX_LOWER == <<"s", "b", "u", "x">>
JOES_DINER == <<"J", "O", "E", "S", " ", "D", "I", "N", "E", "R">>

\* The Description cells the rows are drawn from ('' among them).
Descriptions == {JOES_42, JOES_77, SBUX_POS, SBUX_LOWER, <<>>}

DATE == <<"d">>

\* The rows: with a Description cell, or too short to have one.
Rows == {<<DATE>>} \cup {<<DATE, d>> : d \in Descriptions}

RowLists == UNION {[1..n -> Rows] : n \in 0..MaxRows}

\* The files at filepath: unreadable; with the columns Date and
\* Description; with no Description column at all.
Files ==
  {[readable |-> FALSE, fieldnames |-> <<>>, rows |-> <<>>]}
  \cup {[readable |-> TRUE, fieldnames |-> <<"Date", "Description">>, rows |-> r] :
          r \in RowLists}
  \cup {[readable |-> TRUE, fieldnames |-> <<"Date">>, rows |-> r] :
          r \in UNION {[1..n -> {<<DATE>>}] : n \in 0..MaxRows}}

Init ==
  /\ pc = "print_loading"
  /\ file \in Files
  /\ transactions = <<>>
  /\ vendors = <<>>
  /\ todo = <<>>
  /\ patterns = <<>>
  /\ groups = <<>>
  /\ merchant_counts = <<>>
  /\ top_merchants = <<>>
  /\ out = <<>>
  /\ raised = "none"
  /\ NormIdle

\* line 88
PrintLoading ==
  /\ pc = "print_loading"
  /\ out' = Append(out, Printed(88, <<>>))
  /\ pc' = "load"
  /\ UNCHANGED <<file, transactions, vendors, todo, patterns, groups,
                 merchant_counts, top_merchants, raised>>
  /\ UNCHANGED normVars

\* line 89, the file readable
LoadTransactions ==
  /\ pc = "load"
  /\ file.readable
  /\ transactions' = load_transactions(file)
  /\ pc' = "unique_vendors"
  /\ UNCHANGED <<file, vendors, todo, patterns, groups, merchant_counts,
                 top_merchants, out, raised>>
  /\ UNCHANGED normVars

\* line 89, open() or the csv reader raising: nothing catches it
LoadRaises ==
  /\ pc = "load"
  /\ ~file.readable
  /\ raised' = "OSError"
  /\ pc' = "raised"
  /\ UNCHANGED <<file, transactions, vendors, todo, patterns, groups,
                 merchant_counts, top_merchants, out>>
  /\ UNCHANGED normVars

\* lines 92-96: the distinct truthy descriptions, in the order the set
\* happens to iterate; two prints; extract_vendor_patterns is entered
UniqueVendors ==
  /\ pc = "unique_vendors"
  /\ vendors' \in Orderings({transactions[n]["Description"] :
                              n \in {m \in DOMAIN transactions :
                                       truthy(get_description(transactions[m], None))}})
  /\ out' = out \o <<Printed(93, <<Len(vendors')>>), Printed(95, <<>>)>>
  /\ patterns' = <<>>
  /\ todo' = vendors'
  /\ pc' = "extract"
  /\ UNCHANGED <<file, transactions, groups, merchant_counts, top_merchants, raised>>
  /\ UNCHANGED normVars

\* lines 24-27: one turn of the loop of extract_vendor_patterns
ExtractVendor ==
  /\ pc = "extract"
  /\ todo # <<>>
  /\ patterns' = append_variant(patterns, normalize_vendor_base(Head(todo)), Head(todo))
  /\ todo' = Tail(todo)
  /\ UNCHANGED <<pc, file, transactions, vendors, groups, merchant_counts,
                 top_merchants, out, raised>>
  /\ UNCHANGED normVars

\* line 29: extract_vendor_patterns returns
ExtractReturn ==
  /\ pc = "extract"
  /\ todo = <<>>
  /\ pc' = "find_groups"
  /\ UNCHANGED <<file, transactions, vendors, todo, patterns, groups,
                 merchant_counts, top_merchants, out, raised>>
  /\ UNCHANGED normVars

\* line 97: groups = find_groups(patterns)
FindGroups ==
  /\ pc = "find_groups"
  /\ groups' = find_groups(patterns)
  /\ pc' = "print_groups"
  /\ UNCHANGED <<file, transactions, vendors, todo, patterns, merchant_counts,
                 top_merchants, out, raised>>
  /\ UNCHANGED normVars

\* lines 99-116: the report of the groups, and the counting loop is entered
PrintGroups ==
  /\ pc = "print_groups"
  /\ out' = out \o <<Printed(99, <<Len(groups)>>), Printed(100, <<>>)>>
          \o (IF groups = <<>> THEN <<>> ELSE <<Printed(104, groups_report(groups))>>)
          \o <<Printed(111, <<>>), Printed(112, <<>>), Printed(113, <<>>)>>
  /\ merchant_counts' = <<>>
  /\ todo' = transactions
  /\ pc' = "count"
  /\ UNCHANGED <<file, transactions, vendors, patterns, groups, top_merchants, raised>>
  /\ UNCHANGED normVars

\* lines 117-120: one turn of the counting loop, the description a str
CountMerchant ==
  /\ pc = "count"
  /\ todo # <<>>
  /\ get_description(Head(todo), <<>>) # None
  /\ merchant_counts' =
       count_one(merchant_counts,
                 normalize_vendor_base(get_description(Head(todo), <<>>)))
  /\ todo' = Tail(todo)
  /\ UNCHANGED <<pc, file, transactions, vendors, patterns, groups,
                 top_merchants, out, raised>>
  /\ UNCHANGED normVars

\* lines 118-119, the description None: None.upper() raises at line 33
CountRaises ==
  /\ pc = "count"
  /\ todo # <<>>
  /\ get_description(Head(todo), <<>>) = None
  /\ raised' = "AttributeError"
  /\ pc' = "raised"
  /\ UNCHANGED <<file, transactions, vendors, todo, patterns, groups,
                 merchant_counts, top_merchants, out>>
  /\ UNCHANGED normVars

\* line 122
TopMerchants ==
  /\ pc = "count"
  /\ todo = <<>>
  /\ top_merchants' = top_of(merchant_counts)
  /\ pc' = "print_top"
  /\ UNCHANGED <<file, transactions, vendors, todo, patterns, groups,
                 merchant_counts, out, raised>>
  /\ UNCHANGED normVars

\* lines 124-127
PrintTop ==
  /\ pc = "print_top"
  /\ out' = out \o <<Printed(124, <<>>)>>
          \o (IF top_merchants = <<>> THEN <<>>
              ELSE <<Printed(127, merchants_report(top_merchants, patterns))>>)
  /\ pc' = "done"
  /\ UNCHANGED <<file, transactions, vendors, todo, patterns, groups,
                 merchant_counts, top_merchants, raised>>
  /\ UNCHANGED normVars

Next ==
  \/ PrintLoading
  \/ LoadTransactions
  \/ LoadRaises
  \/ UniqueVendors
  \/ ExtractVendor
  \/ ExtractReturn
  \/ FindGroups
  \/ PrintGroups
  \/ CountMerchant
  \/ CountRaises
  \/ TopMerchants
  \/ PrintTop

Spec == Init /\ [][Next]_vars

---------------------------------------------------------------------------
(* find_groups called on its own, on a grouping map of any shape.          *)

\* The most buckets a grouping map has.
MaxBuckets == 3

\* The most raw variants a bucket has.
MaxVariants == 3

\* The keys of the buckets.
Keys == {<<"A">>, <<"B">>, <<"C">>, <<"D">>}

\* Raw variants, in an order that is not the sorted one.
Variants ==
  <<<<"c", " ", "#", "1">>, <<"C">>, <<"c">>, <<"c", " ", "#", "2">>, <<"C", " ">>>>

\* The buckets' lists: the first n variants.
VariantLists == {Take(Variants, n) : n \in 1..MaxVariants}

\* The grouping maps: distinct keys in any insertion order, no list empty.
GroupingMaps ==
  UNION {{d \in [1..n -> Keys \X VariantLists] :
            \A a, b \in 1..n : a # b => d[a][1] # d[b][1]} : n \in 0..MaxBuckets}

InitGroups ==
  /\ pc = "find_groups"
  /\ patterns \in GroupingMaps
  /\ file = <<>>
  /\ transactions = <<>>
  /\ vendors = <<>>
  /\ todo = <<>>
  /\ groups = <<>>
  /\ merchant_counts = <<>>
  /\ top_merchants = <<>>
  /\ out = <<>>
  /\ raised = "none"
  /\ NormIdle

NextGroups == FindGroups

SpecGroups == InitGroups /\ [][NextGroups]_vars

---------------------------------------------------------------------------
(* The properties.                                                         *)

\* C1: canonicalization is idempotent: normalising the returned key again
\* gives the same key.
Idempotent == Returned => normalize_vendor_base(v) = v

\* The sum of the counts of a dict of counters.
RECURSIVE SumCounts(_)
SumCounts(d) == IF d = <<>> THEN 0 ELSE Head(d)[2] + SumCounts(Tail(d))

\* The transactions that have a non-empty description.
Described ==
  {n \in DOMAIN transactions : truthy(get_description(transactions[n], None))}

\* C2: a transaction with no or an empty description increments no counter:
\* once every transaction is counted, the counts sum to the number of
\* transactions with a non-empty description.
EmptyDescriptionsSkipped ==
  pc \in {"print_top", "done"} => SumCounts(merchant_counts) = Cardinality(Described)

\* C3: a record without a description (key absent, '' or None) never makes
\* the run fail: a run over a readable file raises nothing.
MissingFieldNeverFails == file.readable => raised = "none"

\* The prints that only say what the run is doing (lines 88 and 95); every
\* other print writes part of the report.
ProgressLines == {88, 95}

\* C4: a run that ends in an error has emitted no report output before it.
NoReportBeforeFailure ==
  raised # "none" => \A n \in DOMAIN out : out[n].at \in ProgressLines

\* C5: the returned key is no longer than the argument uppercased and
\* stripped.
MonotonicShortening == Returned => Len(v) <= Len(strip(upper(vendor)))

\* C5's case: the Amazon rewrite has fired and the key is shorter.
MonotonicShorteningWitness ==
  /\ Returned
  /\ 47 \in fired
  /\ Len(v) < Len(strip(upper(vendor)))

\* Where raw stands in the buckets of d: <<bucket, position>>.
Places(d, raw) ==
  {bp \in UNION {{<<b, p>> : p \in DOMAIN d[b][2]} : b \in DOMAIN d} :
     d[bp[1]][2][bp[2]] = raw}

\* C6: when extract_vendor_patterns has returned, every raw string in the
\* bucket of key k normalises to k, every vendor is in exactly one bucket,
\* and no bucket holds a raw string twice.
GroupingConsistency ==
  pc = "find_groups" =>
    /\ \A b \in DOMAIN patterns : \A p \in DOMAIN patterns[b][2] :
         /\ normalize_vendor_base(patterns[b][2][p]) = patterns[b][1]
         /\ \E n \in DOMAIN vendors : vendors[n] = patterns[b][2][p]
    /\ \A n \in DOMAIN vendors : Cardinality(Places(patterns, vendors[n])) = 1

\* C6's case: several buckets, one of them with two variants.
GroupingConsistencyWitness ==
  /\ pc = "find_groups"
  /\ Len(patterns) >= 2
  /\ \E b \in DOMAIN patterns : Len(patterns[b][2]) >= 2

\* The vendors are the two JOES DINER descriptions.
JoesOnly == {vendors[n] : n \in DOMAIN vendors} = {JOES_42, JOES_77}

\* C7: "TST* JOES DINER #42" and "TST*JOES DINER #77" both normalise to
\* "JOES DINER" (line 37 leaves them, line 38 strips the #token, line 50 the
\* prefix), so the two make one bucket JOES DINER of 2 variants, and
\* find_groups reports it.
JoesDinerOneGroup ==
  (pc = "print_groups" /\ JoesOnly) =>
    /\ \A raw \in {JOES_42, JOES_77} :
         /\ normalize_vendor_base(raw) = JOES_DINER
         /\ sub_store_number(upper(raw)) = upper(raw)
         /\ sub_hash_token(upper(raw)) # upper(raw)
         /\ sub_tst(sub_hash_token(upper(raw))) # sub_hash_token(upper(raw))
    /\ Len(patterns) = 1
    /\ patterns[1][1] = JOES_DINER
    /\ Len(patterns[1][2]) = 2
    /\ groups = <<<<JOES_DINER, <<JOES_42, JOES_77>>>>>>

\* C7's case: the two descriptions grouped and reported.
JoesDinerWitness ==
  /\ pc = "print_groups"
  /\ JoesOnly
  /\ Len(groups) = 1

\* C8: at most one of the prefix statements (lines 44, 50, 53, 56, 59)
\* changes v in one call.
AtMostOnePrefixFires == Cardinality(fired \cap PrefixLines) <= 1

\* C9: find_groups returns exactly the buckets of more than one variant,
\* variant counts non-increasing along the list, buckets of equal count in
\* the map's insertion order.
FindGroupsExactSortedStable ==
  pc = "print_groups" =>
    /\ \A n \in DOMAIN patterns :
         Len(patterns[n][2]) > 1 <=>
           \E g \in DOMAIN groups : groups[g][1] = patterns[n][1]
    /\ Len(groups) = Cardinality({n \in DOMAIN patterns : Len(patterns[n][2]) > 1})
    /\ \A g \in DOMAIN groups :
         /\ ItemIndex(patterns, groups[g][1]) # 0
         /\ Len(groups[g][2]) = Len(patterns[ItemIndex(patterns, groups[g][1])][2])
    /\ \A g, h \in DOMAIN groups :
         g < h =>
           /\ Len(groups[g][2]) >= Len(groups[h][2])
           /\ Len(groups[g][2]) = Len(groups[h][2]) =>
                ItemIndex(patterns, groups[g][1]) < ItemIndex(patterns, groups[h][1])

\* C9's case: buckets of 2, 3 and 2 variants come back as 3, 2, 2, the two
\* of 2 variants in insertion order.
FindGroupsWitness ==
  /\ pc = "print_groups"
  /\ Len(patterns) = 3
  /\ Len(patterns[1][2]) = 2
  /\ Len(patterns[2][2]) = 3
  /\ Len(patterns[3][2]) = 2
  /\ Len(groups) = 3
  /\ groups[1][1] = patterns[2][1]
  /\ groups[2][1] = patterns[1][1]
  /\ groups[3][1] = patterns[3][1]

\* The rules in the order the specification documents them: every prefix
\* strip before the marketplace rewrite.
documented_order(raw) ==
  LET r1 == sub_store_number(upper(raw))
      r2 == sub_hash_token(r1)
      r3 == sub_location_code(r2)
      r4 == sub_par(sub_fsp(sub_sp(sub_tst(sub_sq(r3)))))
      r5 == sub_amazon(r4)
      r6 == sub_prairie_fire(sub_leawood(sub_overland_park(r5)))
      r7 == sub_pos(r6)
      r8 == sub_outside(r7)
  IN strip(r8)

\* C10: the key normalize_vendor_base returns equals the key the rules give
\* when applied in the documented order.
DocumentedOrderAgrees == Returned => v = documented_order(vendor)

\* C10's case: the marketplace rewrite and a prefix strip after it both
\* fired.
DocumentedOrderWitness ==
  /\ Returned
  /\ 47 \in fired
  /\ fired \cap {50, 53, 56, 59} # {}

============================================================================
